---- MODULE Spec2Model ----
(***************************************************************************)
(* SpectraFilm (src/spectrafilm.go): per-frame colour reduction            *)
(* (getAverage, getMedian, getMode), barcode rendering (genLineImage,      *)
(* genLineColImage) and the frame-series pipeline (processFrames, main).   *)
(*                                                                         *)
(* Three specifications share the module:                                  *)
(*   SpecReduce  applies one reduction to one pixel list,                  *)
(*   SpecRender  applies one renderer to one colour sequence,              *)
(*   Spec        runs main from flag normalisation to the JSON summary.    *)
(***************************************************************************)
EXTENDS Integers, Sequences, FiniteSets

VARIABLES
    \* process-wide flags (src/spectrafilm.go:506-517)
    genAll, genAvg, avgSqr, genMed, genMode, width, lineHeight,
    \* the function a harness specification applied ("idle" before the call)
    op,
    \* reduction harness: the input list, the results, how the call ended
    pixels, avgResult, medResult, modeResult, reduceStatus,
    \* render harness: the inputs, the raster encoded to the file, how the
    \* call ended
    lineFrames, colFrames, img, renderStatus,
    \* main: the frame directory listing, the loop position of processFrames,
    \* its result so far, the files written to outDir, the control position
    files, idx, frames, written, pc,
    \* ffmpeg(): the position of the call, the external process, the lines it
    \* still has to write (each named by its stream), the content of the two
    \* pipes, which read ends cmd.Wait has closed, the two pipeReader
    \* goroutines, the lines printed, and how the program ended
    ffpc, proc, toWrite, pipe, closed, reader, printed, progExit

cfgVars    == <<genAll, genAvg, avgSqr, genMed, genMode, width, lineHeight>>
reduceVars == <<pixels, avgResult, medResult, modeResult, reduceStatus>>
renderVars == <<lineFrames, colFrames, img, renderStatus>>
mainVars   == <<files, idx, frames, written, pc>>
ffVars     == <<ffpc, proc, toWrite, pipe, closed, reader, printed, progExit>>
vars       == <<cfgVars, op, reduceVars, renderVars, mainVars, ffVars>>

(***************************************************************************)
(* Bounds of the model.                                                    *)
(***************************************************************************)
MaxPixels     == 3   \* pixels per frame in SpecReduce
MaxN          == 3   \* largest -mode N
MaxFrames     == 2   \* frames per rendered sequence in SpecRender
MaxCols       == 2   \* colours per row handed to genLineColImage
MaxWidth      == 3   \* largest -w
MaxLineHeight == 2   \* largest -lh
MaxFiles      == 2   \* entries of the frame directory in Spec
MaxLines      == 3   \* lines the external process writes in SpecFfmpeg
PipeCap       == 1   \* lines a pipe holds before a write to it blocks

\* the default of -lh (flag.IntVar(&lineHeight, "lh", 1, ...))
DefaultLineHeight == 1

Min(a, b) == IF a < b THEN a ELSE b
Range(s)  == {s[i] : i \in 1..Len(s)}
SeqsUpTo(S, n) == UNION {[1..k -> S] : k \in 0..n}

(***************************************************************************)
(* RGB: a colour is <<r, g, b>>, each channel a uint8.                     *)
(***************************************************************************)
Black == <<0, 0, 0>>
White == <<255, 255, 255>>
Red   == <<255, 0, 0>>
Green == <<0, 255, 0>>
Blue  == <<0, 0, 255>>
Pink  == <<255, 0, 128>>

\* The colours frames are drawn from: two greys and Red share hue 0,
\* Pink has its hue wrapped around by ToHSL.
Palette == {Black, White, Red, Green, Blue, Pink}

R(c) == c[1]
G(c) == c[2]
B(c) == c[3]

\* color.RGBA{c[0], c[1], c[2], 255}
RGBA(c) == <<c[1], c[2], c[3], 255>>

\* ((c[0] << 16) | (c[1] << 8) | c[2]); also the order of the %02X%02X%02X
\* strings of Hex, which getMode uses as map keys.
Uint32(c) == c[1] * 65536 + c[2] * 256 + c[3]

Max3(c) == IF R(c) >= G(c) /\ R(c) >= B(c) THEN R(c)
           ELSE IF G(c) >= B(c) THEN G(c) ELSE B(c)
Min3(c) == IF R(c) <= G(c) /\ R(c) <= B(c) THEN R(c)
           ELSE IF G(c) <= B(c) THEN G(c) ELSE B(c)

(***************************************************************************)
(* ToHSL().H as an exact fraction <<numerator, denominator>>.  With        *)
(* delta = max - min the code computes                                     *)
(*   r2 = ((max-r)/6 + delta/2)/delta   (g2, b2 alike)                     *)
(*   r == max: h = b2 - g2          = (g - b) / (6 delta)                  *)
(*   g == max: h = 1/3 + r2 - b2    = (2 delta + b - r) / (6 delta)        *)
(*   b == max: h = 2/3 + g2 - r2    = (4 delta + r - g) / (6 delta)        *)
(* and adds 1 to a negative h.  Grey (delta = 0) returns h = 0.            *)
(***************************************************************************)
HueRaw(c) ==
    LET mx == Max3(c)
        delta == Max3(c) - Min3(c)
    IN  IF R(c) = mx THEN G(c) - B(c)
        ELSE IF G(c) = mx THEN 2 * delta + B(c) - R(c)
        ELSE 4 * delta + R(c) - G(c)

ToHSL_H(c) ==
    LET delta == Max3(c) - Min3(c)
    IN  IF delta = 0 THEN <<0, 1>>
        ELSE IF HueRaw(c) < 0 THEN <<HueRaw(c) + 6 * delta, 6 * delta>>
        ELSE IF HueRaw(c) > 6 * delta THEN <<HueRaw(c) - 6 * delta, 6 * delta>>
        ELSE <<HueRaw(c), 6 * delta>>

\* h1 < h2 on fractions with positive denominators
FracLess(h1, h2) == h1[1] * h2[2] < h2[1] * h1[2]

\* RGBList.Less, on the two elements compared.  LessByUint32 is the ordering
\* the source keeps commented out.
LessByUint32(a, b) == Uint32(a) < Uint32(b)
Less(a, b) == FracLess(ToHSL_H(a), ToHSL_H(b))

(***************************************************************************)
(* sort.Sort(RGBList) is not stable: the model returns every arrangement   *)
(* of the list in which no later element is Less than an earlier one.      *)
(***************************************************************************)
InsertAt(s, k, x) == SubSeq(s, 1, k) \o <<x>> \o SubSeq(s, k + 1, Len(s))

HueInsertions(s, x) ==
    {InsertAt(s, k, x) : k \in {j \in 0..Len(s) :
        /\ \A i \in 1..j : ~Less(x, s[i])
        /\ \A i \in (j + 1)..Len(s) : ~Less(s[i], x)}}

RECURSIVE SortRGBList(_)
SortRGBList(list) ==
    IF list = <<>> THEN {<<>>}
    ELSE UNION {HueInsertions(s, Head(list)) : s \in SortRGBList(Tail(list))}

(***************************************************************************)
(* getAverage.  The float64 accumulators hold the integer sums exactly     *)
(* (every sum is far below 2^53), so the sums are integers here.           *)
(***************************************************************************)
RECURSIVE SumChannel(_, _)
SumChannel(list, ch) ==
    IF list = <<>> THEN 0 ELSE Head(list)[ch] + SumChannel(Tail(list), ch)

RECURSIVE SumSquares(_, _)
SumSquares(list, ch) ==
    IF list = <<>> THEN 0
    ELSE Head(list)[ch] * Head(list)[ch] + SumSquares(Tail(list), ch)

\* The largest r in lo..hi-1 with r*r*total <= sum, by bisection; callers
\* pass lo = 0, hi = 256 (the quotient sum/total is at most 255*255).
RECURSIVE SqrtBetween(_, _, _, _)
SqrtBetween(sum, total, lo, hi) ==
    IF hi - lo <= 1 THEN lo
    ELSE LET mid == (lo + hi) \div 2
         IN  IF mid * mid * total <= sum
             THEN SqrtBetween(sum, total, mid, hi)
             ELSE SqrtBetween(sum, total, lo, mid)

\* the nearest integer to the square root (halves upward)
SqrtRounded(sum, total) ==
    LET t == SqrtBetween(sum, total, 0, 256)
    IN  IF (2 * t + 1) * (2 * t + 1) * total <= 4 * sum THEN t + 1 ELSE t

\* uint8(math.Sqrt(sum / float64(total))): the conversion of a float64 to
\* uint8 drops the fraction.
SqrtTruncated(sum, total) == SqrtBetween(sum, total, 0, 256)

\* the mean rounded to the nearest integer
MeanRounded(sum, total) == (2 * sum + total) \div (2 * total)

\* uint8(math.Floor(sum / float64(total)))
MeanFloor(sum, total) == sum \div total

getAverage(list, sqr) ==
    LET total == Len(list)
    IN  IF sqr
        THEN [ch \in 1..3 |-> SqrtTruncated(SumSquares(list, ch), total)]
        ELSE [ch \in 1..3 |-> MeanFloor(SumChannel(list, ch), total)]

\* With total = 0 every quotient is 0/0 = NaN, math.Floor and math.Sqrt keep
\* it NaN, and the conversion of a NaN to uint8 is implementation-dependent:
\* the build fixes one byte, which all three channels get.
NaNToUint8 == 0..255

\* the set of colours the call can return
getAverageResults(list, sqr) ==
    IF Len(list) = 0 THEN {<<v, v, v>> : v \in NaNToUint8}
    ELSE {getAverage(list, sqr)}

(***************************************************************************)
(* getMedian: the set of colours the call can return (one per arrangement  *)
(* sort.Sort can leave the copy in).                                       *)
(***************************************************************************)
\* the lower middle
LowerMedianIndex(n) == (n - 1) \div 2

\* len(list)/2
MedianIndex(n) == n \div 2

getMedian(list) == {s[MedianIndex(Len(s)) + 1] : s \in SortRGBList(list)}

\* list[len(list)/2] is bounds-checked: an index outside 0 .. len(list)-1
\* is a runtime panic (index out of range)
getMedianPanics(list) ==
    ~(0 <= MedianIndex(Len(list)) /\ MedianIndex(Len(list)) < Len(list))

(***************************************************************************)
(* getMode.  The map m has one colorCount per distinct colour (the key is  *)
(* the colour's Hex string, which determines the colour); its iteration    *)
(* order is arbitrary and sort.Sort is not stable, so after                *)
(*   sort.Sort(counts); sort.Sort(sort.Reverse(counts))                    *)
(* counts is any arrangement with Value descending.                        *)
(***************************************************************************)
Occurrences(list, c) == Cardinality({i \in 1..Len(list) : list[i] = c})

colorCounts(list) ==
    {[Value |-> Occurrences(list, c), Color |-> c] : c \in Range(list)}

\* colorCountList.Less
CountLess(a, b) == a.Value < b.Value

CountInsertions(s, x) ==
    {InsertAt(s, k, x) : k \in {j \in 0..Len(s) :
        /\ \A i \in 1..j : ~CountLess(s[i], x)
        /\ \A i \in (j + 1)..Len(s) : ~CountLess(x, s[i])}}

RECURSIVE SortReverseCounts(_)
SortReverseCounts(set) ==
    IF set = {} THEN {<<>>}
    ELSE LET x == CHOOSE e \in set : TRUE
         IN  UNION {CountInsertions(s, x) : s \in SortReverseCounts(set \ {x})}

\* result := make(RGBList, genMode) is n zero colours; the loop overwrites
\* the first min(len(counts), n) of them.
FillResult(counts, n) ==
    [i \in 1..n |-> IF i <= Len(counts) THEN counts[i].Color ELSE Black]

\* the set of sequences the call can return
getMode(list, n) ==
    UNION {SortRGBList(FillResult(counts, n)) :
               counts \in SortReverseCounts(colorCounts(list))}

(***************************************************************************)
(* SpecReduce: one reduction applied to one pixel list.  The call ends     *)
(* "returned" (with a result) or "panic" (a runtime error, no result).     *)
(***************************************************************************)
\* the frame of the dominant-set scenario: red x5, blue x3, green x1
ScenarioFrame == <<Red, Blue, Red, Green, Red, Blue, Red, Blue, Red>>
\* the 2x2 grid [[white, white], [black, black]], row-major as getPixels reads it
TwoByTwoFrame == <<White, White, Black, Black>>
\* three bright pixels and a black one
BrightFrame == <<White, Black, White, White>>

\* the empty list is what getPixels returns for an image without pixels
PixelLists ==
    SeqsUpTo(Palette, MaxPixels)
        \cup {ScenarioFrame, TwoByTwoFrame, BrightFrame}

NoColor == <<>>

RenderIdle ==
    /\ lineFrames = <<>> /\ colFrames = <<>>
    /\ img = <<>> /\ renderStatus = "idle"

\* what outDir holds of this run: per output file, <<>> while it is not
\* written and <<content>> once it is
NothingWritten == [avg |-> <<>>, med |-> <<>>, mode |-> <<>>, json |-> <<>>]

MainIdle ==
    /\ files = <<>> /\ idx = 0 /\ frames = <<>>
    /\ written = NothingWritten /\ pc = "idle"

\* the two streams of the external process, in the order ffmpeg() makes
\* their pipes
Streams == {"stdout", "stderr"}

FfmpegIdle ==
    /\ ffpc = "idle" /\ proc = "notStarted" /\ toWrite = <<>>
    /\ pipe = [s \in Streams |-> <<>>]
    /\ closed = [s \in Streams |-> FALSE]
    /\ reader = [s \in Streams |-> "none"]
    /\ printed = <<>> /\ progExit = "no"

InitReduce ==
    /\ pixels \in PixelLists
    /\ genMode \in 1..MaxN
    /\ avgSqr \in BOOLEAN
    /\ genAll = FALSE /\ genAvg = TRUE /\ genMed = TRUE
    /\ width = 1 /\ lineHeight = 1
    /\ op = "idle"
    /\ avgResult = NoColor /\ medResult = NoColor /\ modeResult = <<>>
    /\ reduceStatus = "idle"
    /\ RenderIdle
    /\ MainIdle
    /\ FfmpegIdle

CallGetAverage ==
    /\ op = "idle"
    /\ op' = "getAverage"
    /\ avgResult' \in getAverageResults(pixels, avgSqr)
    /\ reduceStatus' = "returned"
    /\ UNCHANGED <<pixels, medResult, modeResult>>
    /\ UNCHANGED <<cfgVars, renderVars, mainVars, ffVars>>

CallGetMedian ==
    /\ op = "idle"
    /\ op' = "getMedian"
    /\ IF getMedianPanics(pixels)
       THEN /\ medResult' = NoColor
            /\ reduceStatus' = "panic"
       ELSE /\ medResult' \in getMedian(pixels)
            /\ reduceStatus' = "returned"
    /\ UNCHANGED <<pixels, avgResult, modeResult>>
    /\ UNCHANGED <<cfgVars, renderVars, mainVars, ffVars>>

CallGetMode ==
    /\ op = "idle"
    /\ op' = "getMode"
    /\ modeResult' \in getMode(pixels, genMode)
    /\ reduceStatus' = "returned"
    /\ UNCHANGED <<pixels, avgResult, medResult>>
    /\ UNCHANGED <<cfgVars, renderVars, mainVars, ffVars>>

NextReduce == CallGetAverage \/ CallGetMedian \/ CallGetMode

SpecReduce == InitReduce /\ [][NextReduce]_vars

(***************************************************************************)
(* Rasters.  image.NewRGBA(image.Rect(0, 0, w, h)) is w x h pixels, each   *)
(* the zero color.RGBA; a raster is a function from <<x, y>> to a pixel.   *)
(***************************************************************************)
Background == <<0, 0, 0, 0>>

NewRGBA(w, h) == [p \in (0..(w - 1)) \X (0..(h - 1)) |-> Background]

\* (*image.RGBA).Set ignores a point outside the rectangle
Set(im, x, y, c) ==
    IF <<x, y>> \in DOMAIN im THEN [im EXCEPT ![<<x, y>>] = c] ELSE im

\* for x := from; x < to; x++ { img.Set(x, y, c) }
RECURSIVE FillSpan(_, _, _, _, _)
FillSpan(im, from, to, y, c) ==
    IF from >= to THEN im
    ELSE FillSpan(Set(im, from, y, c), from + 1, to, y, c)

\* the row the loops of genLineImage and genLineColImage write for frame y
\* (counted from 0) and line i
RowShifted(y, i, lh) == y + i
RowOf(y, i, lh) == (y * lh) + i

(***************************************************************************)
(* genLineImage: the raster handed to png.Encode.                          *)
(***************************************************************************)
\* for i := i; i < lineHeight; i++ { for x := 0; x < width; x++ {...} }
RECURSIVE LineBand(_, _, _, _, _, _)
LineBand(im, c, y, i, w, lh) ==
    IF i >= lh THEN im
    ELSE LineBand(FillSpan(im, 0, w, RowOf(y, i, lh), c), c, y, i + 1, w, lh)

\* for y, row := range frames, from frame y on
RECURSIVE LineRows(_, _, _, _, _)
LineRows(im, list, y, w, lh) ==
    IF y >= Len(list) THEN im
    ELSE LineRows(LineBand(im, RGBA(list[y + 1]), y, 0, w, lh),
                  list, y + 1, w, lh)

genLineImage(list, w, lh) ==
    LineRows(NewRGBA(w, Len(list) * lh), list, 0, w, lh)

(***************************************************************************)
(* genLineColImage: how the drawing loop ends ("ok", or "panic" for the    *)
(* runtime error of width / len(row) with an empty row) and the raster.    *)
(***************************************************************************)
\* colWidth = width / len(row): integer division, for len(row) > 0
ColWidthCeil(w, n) == (w + n - 1) \div n
ColWidth(w, n) == w \div n

\* for j, col := range row, from column j on
RECURSIVE ColCells(_, _, _, _, _)
ColCells(im, row, colWidth, j, yy) ==
    IF j >= Len(row) THEN im
    ELSE ColCells(FillSpan(im, j * colWidth, j * colWidth + colWidth, yy,
                           RGBA(row[j + 1])),
                  row, colWidth, j + 1, yy)

RECURSIVE ColBand(_, _, _, _, _, _)
ColBand(im, row, colWidth, y, i, lh) ==
    IF i >= lh THEN im
    ELSE ColBand(ColCells(im, row, colWidth, 0, RowOf(y, i, lh)),
                 row, colWidth, y, i + 1, lh)

RECURSIVE ColRows(_, _, _, _, _)
ColRows(im, rows, y, w, lh) ==
    IF y >= Len(rows) THEN [status |-> "ok", img |-> im]
    ELSE IF Len(rows[y + 1]) = 0 THEN [status |-> "panic", img |-> im]
    ELSE ColRows(ColBand(im, rows[y + 1], ColWidth(w, Len(rows[y + 1])),
                         y, 0, lh),
                 rows, y + 1, w, lh)

genLineColImage(rows, w, lh) ==
    ColRows(NewRGBA(w, Len(rows) * lh), rows, 0, w, lh)

(***************************************************************************)
(* SpecRender: one renderer applied to one sequence.  The call ends        *)
(*   "written"       the raster was encoded to the created file,           *)
(*   "createFailed"  os.Create failed and the process exited with 1,       *)
(*   "panic"         the drawing loop raised a runtime error.              *)
(* img is the raster in the file (none unless "written").                  *)
(***************************************************************************)
RenderPalette == {Red, Blue}
NoImage == <<>>

ReduceIdle ==
    /\ pixels = <<>>
    /\ avgResult = NoColor /\ medResult = NoColor /\ modeResult = <<>>
    /\ reduceStatus = "idle"

InitRender ==
    /\ \/ /\ lineFrames \in SeqsUpTo(RenderPalette, MaxFrames)
          /\ colFrames = <<>>
       \/ /\ lineFrames = <<>>
          /\ colFrames \in SeqsUpTo(SeqsUpTo(RenderPalette, MaxCols), MaxFrames)
    /\ width \in 1..MaxWidth
    /\ lineHeight \in 1..MaxLineHeight
    /\ genAll = FALSE /\ genAvg = TRUE /\ genMed = TRUE
    /\ avgSqr = FALSE /\ genMode = MaxCols
    /\ op = "idle"
    /\ img = NoImage /\ renderStatus = "idle"
    /\ ReduceIdle
    /\ MainIdle
    /\ FfmpegIdle

CallGenLineImage ==
    /\ op = "idle"
    /\ op' = "genLineImage"
    /\ \E created \in BOOLEAN :
          IF created
          THEN /\ img' = genLineImage(lineFrames, width, lineHeight)
               /\ renderStatus' = "written"
          ELSE /\ img' = NoImage
               /\ renderStatus' = "createFailed"
    /\ UNCHANGED <<lineFrames, colFrames>>
    /\ UNCHANGED <<cfgVars, reduceVars, mainVars, ffVars>>

CallGenLineColImage ==
    /\ op = "idle"
    /\ op' = "genLineColImage"
    /\ LET drawn == genLineColImage(colFrames, width, lineHeight)
       IN  IF drawn.status = "panic"
           THEN /\ img' = NoImage
                /\ renderStatus' = "panic"
           ELSE \E created \in BOOLEAN :
                   IF created
                   THEN /\ img' = drawn.img
                        /\ renderStatus' = "written"
                   ELSE /\ img' = NoImage
                        /\ renderStatus' = "createFailed"
    /\ UNCHANGED <<lineFrames, colFrames>>
    /\ UNCHANGED <<cfgVars, reduceVars, mainVars, ffVars>>

NextRender == CallGenLineImage \/ CallGenLineColImage

SpecRender == InitRender /\ [][NextRender]_vars

(***************************************************************************)
(* Spec: main, from the flag defaults to the JSON summary.                 *)
(*                                                                         *)
(* files is what ioutil.ReadDir(frameDir) returns, sorted by name: entry i *)
(* has Name i.  An entry is a directory, a file openImage cannot open or   *)
(* decode ("bad"), or a frame image with the pixels getPixels reads.       *)
(***************************************************************************)
FrameImages == {<<Red, Blue, Blue>>, <<Green, White>>}

EntryKinds ==
    {[Kind |-> "dir", Pixels |-> <<>>], [Kind |-> "bad", Pixels |-> <<>>]}
        \cup {[Kind |-> "image", Pixels |-> p] : p \in FrameImages}

Listings ==
    UNION {{[i \in 1..k |-> [Name |-> i, Kind |-> f[i].Kind,
                             Pixels |-> f[i].Pixels]] :
                f \in [1..k -> EntryKinds]} : k \in 0..MaxFiles}

\* openImage: exits the process with status 1 when the file cannot be
\* opened or decoded, and returns the image otherwise.
openImageBlankOnError(e) ==
    IF e.Kind = "bad" THEN [exit |-> FALSE, img |-> <<Black>>]
    ELSE [exit |-> FALSE, img |-> e.Pixels]

openImage(e) ==
    IF e.Kind = "bad" THEN [exit |-> TRUE, img |-> <<>>]
    ELSE [exit |-> FALSE, img |-> e.Pixels]

\* the zero value of RGB, which an absent reduction leaves in the Frame
ZeroRGB == <<0, 0, 0>>

\* "frames/" + file.Name()
SubPath(name) == <<"frames", name>>

\* result = append(result, Frame{...})
PrependFrame(result, f) == <<f>> \o result
AppendFrame(result, f) == Append(result, f)

\* RGB.Hex: "#" and the three channels, two upper-case hex digits each
Hex(c) == <<"#", c[1], c[2], c[3]>>

toJSONFrame(f) ==
    [Path |-> f.Path, Average |-> Hex(f.Average), Median |-> Hex(f.Median),
     Mode |-> [i \in 1..Len(f.Mode) |-> Hex(f.Mode[i])]]

Init ==
    /\ genAll \in BOOLEAN /\ genAvg \in BOOLEAN /\ genMed \in BOOLEAN
    /\ avgSqr \in BOOLEAN
    /\ genMode \in 0..MaxN
    /\ width = MaxWidth /\ lineHeight = DefaultLineHeight
    /\ files \in Listings
    /\ idx = 0 /\ frames = <<>>
    /\ written = NothingWritten
    /\ pc = "flags"
    /\ op = "main"
    /\ ReduceIdle
    /\ RenderIdle
    /\ FfmpegIdle

\* main, lines 547-557: -all switches every output on; with no output
\* asked for, the average is generated.
NormalizeFlags ==
    /\ pc = "flags"
    /\ LET avg1 == genAll \/ genAvg
           med1 == genAll \/ genMed
           mode1 == IF genAll /\ genMode = 0 THEN 1 ELSE genMode
       IN  /\ genAvg' = (avg1 \/ (~avg1 /\ ~med1 /\ mode1 = 0))
           /\ genMed' = med1
           /\ genMode' = mode1
    /\ pc' = "processFrames"
    /\ UNCHANGED <<genAll, avgSqr, width, lineHeight>>
    /\ UNCHANGED <<files, idx, frames, written>>
    /\ UNCHANGED <<op, reduceVars, renderVars, ffVars>>

\* processFrames, one iteration of the loop over files: a directory
SkipDir ==
    /\ pc = "processFrames"
    /\ idx < Len(files)
    /\ files[idx + 1].Kind = "dir"
    /\ idx' = idx + 1
    /\ UNCHANGED <<files, frames, written, pc>>
    /\ UNCHANGED <<cfgVars, op, reduceVars, renderVars, ffVars>>

\* ... a file openImage gives up on: os.Exit(1)
OpenFailed ==
    /\ pc = "processFrames"
    /\ idx < Len(files)
    /\ files[idx + 1].Kind # "dir"
    /\ openImage(files[idx + 1]).exit
    /\ pc' = "exit1"
    /\ UNCHANGED <<files, idx, frames, written>>
    /\ UNCHANGED <<cfgVars, op, reduceVars, renderVars, ffVars>>

\* ... a frame: reduce it and append its Frame
ProcessFrame ==
    /\ pc = "processFrames"
    /\ idx < Len(files)
    /\ files[idx + 1].Kind # "dir"
    /\ ~openImage(files[idx + 1]).exit
    /\ LET px == openImage(files[idx + 1]).img
           avg == IF genAvg THEN getAverage(px, avgSqr) ELSE ZeroRGB
       IN  \E median \in (IF genMed THEN getMedian(px) ELSE {ZeroRGB}) :
           \E mode \in (IF genMode > 0 THEN getMode(px, genMode) ELSE {<<>>}) :
               frames' = AppendFrame(frames,
                             [Path |-> SubPath(files[idx + 1].Name),
                              Average |-> avg, Median |-> median,
                              Mode |-> mode])
    /\ idx' = idx + 1
    /\ UNCHANGED <<files, written, pc>>
    /\ UNCHANGED <<cfgVars, op, reduceVars, renderVars, ffVars>>

\* the loop is over: processFrames returns result
ProcessFramesReturn ==
    /\ pc = "processFrames"
    /\ idx = Len(files)
    /\ pc' = "genAvg"
    /\ UNCHANGED <<files, idx, frames, written>>
    /\ UNCHANGED <<cfgVars, op, reduceVars, renderVars, ffVars>>

\* main, lines 593-599
GenAvgImage ==
    /\ pc = "genAvg"
    /\ IF genAvg
       THEN LET vals == [i \in 1..Len(frames) |-> frames[i].Average]
            IN  \E created \in BOOLEAN :
                   IF created
                   THEN /\ written' = [written EXCEPT
                               !.avg = <<genLineImage(vals, width, lineHeight)>>]
                        /\ pc' = "genMed"
                   ELSE /\ written' = written
                        /\ pc' = "exit1"
       ELSE /\ written' = written
            /\ pc' = "genMed"
    /\ UNCHANGED <<files, idx, frames>>
    /\ UNCHANGED <<cfgVars, op, reduceVars, renderVars, ffVars>>

\* main, lines 601-607
GenMedImage ==
    /\ pc = "genMed"
    /\ IF genMed
       THEN LET vals == [i \in 1..Len(frames) |-> frames[i].Median]
            IN  \E created \in BOOLEAN :
                   IF created
                   THEN /\ written' = [written EXCEPT
                               !.med = <<genLineImage(vals, width, lineHeight)>>]
                        /\ pc' = "genMode"
                   ELSE /\ written' = written
                        /\ pc' = "exit1"
       ELSE /\ written' = written
            /\ pc' = "genMode"
    /\ UNCHANGED <<files, idx, frames>>
    /\ UNCHANGED <<cfgVars, op, reduceVars, renderVars, ffVars>>

\* main, lines 609-616
GenModeImage ==
    /\ pc = "genMode"
    /\ IF genMode > 0
       THEN LET vals == [i \in 1..Len(frames) |-> frames[i].Mode]
                drawn == genLineColImage(vals, width, lineHeight)
            IN  IF drawn.status = "panic"
                THEN /\ written' = written
                     /\ pc' = "panic"
                ELSE \E created \in BOOLEAN :
                        IF created
                        THEN /\ written' = [written EXCEPT
                                    !.mode = <<drawn.img>>]
                             /\ pc' = "json"
                        ELSE /\ written' = written
                             /\ pc' = "exit1"
       ELSE /\ written' = written
            /\ pc' = "json"
    /\ UNCHANGED <<files, idx, frames>>
    /\ UNCHANGED <<cfgVars, op, reduceVars, renderVars, ffVars>>

\* main, lines 618-632: the JSON summary; a failed write exits with 1
WriteJSON ==
    /\ pc = "json"
    /\ \E wrote \in BOOLEAN :
          IF wrote
          THEN /\ written' = [written EXCEPT !.json =
                      <<[i \in 1..Len(frames) |-> toJSONFrame(frames[i])]>>]
               /\ pc' = "done"
          ELSE /\ written' = written
               /\ pc' = "exit1"
    /\ UNCHANGED <<files, idx, frames>>
    /\ UNCHANGED <<cfgVars, op, reduceVars, renderVars, ffVars>>

Next ==
    \/ NormalizeFlags
    \/ SkipDir
    \/ OpenFailed
    \/ ProcessFrame
    \/ ProcessFramesReturn
    \/ GenAvgImage
    \/ GenMedImage
    \/ GenModeImage
    \/ WriteJSON

Spec == Init /\ [][Next]_vars

(***************************************************************************)
(* SpecFfmpeg: one call of ffmpeg().                                       *)
(*                                                                         *)
(* The external process writes the lines of toWrite in order, each to the  *)
(* pipe of its stream; a pipe holds PipeCap lines and a write to a full    *)
(* pipe blocks.  When the process exits its write ends are closed (the     *)
(* parent's copies are closed by cmd.Start).  Each pipeReader goroutine    *)
(* scans its read end line by line.  cmd.Wait returns once the process has *)
(* exited and closes both read ends before it returns (os/exec: "Wait will *)
(* close the pipe after seeing the command exit"); a Read on a closed      *)
(* *os.File fails with os.ErrClosed, which is not io.EOF.                  *)
(*                                                                         *)
(* ffpc: "start" before cmd.Start, "wait" in cmd.Wait before the process   *)
(* is reaped, "closing" in cmd.Wait while it closes the read ends,         *)
(* "returned" after ffmpeg() returned.                                     *)
(* progExit: "no" while the program runs, "osExit1" after os.Exit(1) in    *)
(* ffmpeg(), "logFatal" after log.Fatal in a pipeReader, "done" after main *)
(* ended.  Goroutines end with the program.                                *)
(***************************************************************************)
Exited == {"exitedOK", "exitedFail"}

\* lines 215-230: the command and its pipes are made, both readers started
InitFfmpeg ==
    /\ ffpc = "start" /\ proc = "notStarted"
    /\ toWrite \in SeqsUpTo(Streams, MaxLines)
    /\ pipe = [s \in Streams |-> <<>>]
    /\ closed = [s \in Streams |-> FALSE]
    /\ reader = [s \in Streams |-> "reading"]
    /\ printed = <<>> /\ progExit = "no"
    /\ genAll = FALSE /\ genAvg = TRUE /\ genMed = FALSE
    /\ avgSqr = FALSE /\ genMode = 0
    /\ width = MaxWidth /\ lineHeight = DefaultLineHeight
    /\ op = "ffmpeg"
    /\ ReduceIdle
    /\ RenderIdle
    /\ MainIdle

\* cmd.Start, lines 232-236
CmdStart ==
    /\ progExit = "no" /\ ffpc = "start"
    /\ \E started \in BOOLEAN :
          IF started
          THEN /\ proc' = "running" /\ ffpc' = "wait"
               /\ UNCHANGED progExit
          ELSE /\ progExit' = "osExit1"
               /\ UNCHANGED <<proc, ffpc>>
    /\ UNCHANGED <<toWrite, pipe, closed, reader, printed>>
    /\ UNCHANGED <<cfgVars, op, reduceVars, renderVars, mainVars>>

\* the process writes its next line; it is blocked while that pipe is full
ProcBlocked ==
    /\ proc = "running" /\ toWrite # <<>>
    /\ Len(pipe[Head(toWrite)]) >= PipeCap

ProcWrite ==
    /\ proc = "running" /\ toWrite # <<>>
    /\ ~ProcBlocked
    /\ pipe' = [pipe EXCEPT ![Head(toWrite)] = Append(@, Head(toWrite))]
    /\ toWrite' = Tail(toWrite)
    /\ UNCHANGED <<ffpc, proc, closed, reader, printed, progExit>>
    /\ UNCHANGED <<cfgVars, op, reduceVars, renderVars, mainVars>>

\* the process exits, with status 0 or not, after its last write
ProcExit ==
    /\ proc = "running" /\ toWrite = <<>>
    /\ proc' \in Exited
    /\ UNCHANGED <<ffpc, toWrite, pipe, closed, reader, printed, progExit>>
    /\ UNCHANGED <<cfgVars, op, reduceVars, renderVars, mainVars>>

\* pipeReader, lines 206-208: scanner.Scan() gets a line, which is printed
ReadLine(s) ==
    /\ progExit = "no" /\ reader[s] = "reading"
    /\ ~closed[s] /\ pipe[s] # <<>>
    /\ printed' = Append(printed, Head(pipe[s]))
    /\ pipe' = [pipe EXCEPT ![s] = Tail(@)]
    /\ UNCHANGED <<ffpc, proc, toWrite, closed, reader, progExit>>
    /\ UNCHANGED <<cfgVars, op, reduceVars, renderVars, mainVars>>

\* pipeReader, lines 206 and 209: the pipe is empty and no write end is
\* open, Scan() returns false with a nil Err() and pipeReader returns
ReadEOF(s) ==
    /\ progExit = "no" /\ reader[s] = "reading"
    /\ ~closed[s] /\ pipe[s] = <<>> /\ proc \in Exited
    /\ reader' = [reader EXCEPT ![s] = "returned"]
    /\ UNCHANGED <<ffpc, proc, toWrite, pipe, closed, printed, progExit>>
    /\ UNCHANGED <<cfgVars, op, reduceVars, renderVars, mainVars>>

\* pipeReader, lines 206 and 209-211: the read end was closed under the
\* reader, Read fails, Err() is not nil and log.Fatal exits the program
ReadClosed(s) ==
    /\ progExit = "no" /\ reader[s] = "reading"
    /\ closed[s]
    /\ reader' = [reader EXCEPT ![s] = "fatal"]
    /\ progExit' = "logFatal"
    /\ UNCHANGED <<ffpc, proc, toWrite, pipe, closed, printed>>
    /\ UNCHANGED <<cfgVars, op, reduceVars, renderVars, mainVars>>

\* cmd.Wait, line 238: the process has exited and is reaped
WaitReap ==
    /\ progExit = "no" /\ ffpc = "wait"
    /\ proc \in Exited
    /\ ffpc' = "closing"
    /\ UNCHANGED <<proc, toWrite, pipe, closed, reader, printed, progExit>>
    /\ UNCHANGED <<cfgVars, op, reduceVars, renderVars, mainVars>>

\* cmd.Wait, line 238: it closes the read ends, stdout's first
WaitClose ==
    /\ progExit = "no" /\ ffpc = "closing"
    /\ \E s \in Streams :
          /\ ~closed[s]
          /\ s = "stderr" => closed["stdout"]
          /\ closed' = [closed EXCEPT ![s] = TRUE]
    /\ UNCHANGED <<ffpc, proc, toWrite, pipe, reader, printed, progExit>>
    /\ UNCHANGED <<cfgVars, op, reduceVars, renderVars, mainVars>>

\* lines 238-243: cmd.Wait returns; its error is nil for exit status 0,
\* and ffmpeg() returns, or else the program exits with status 1
WaitReturn ==
    /\ progExit = "no" /\ ffpc = "closing"
    /\ \A s \in Streams : closed[s]
    /\ IF proc = "exitedOK"
       THEN /\ ffpc' = "returned"
            /\ UNCHANGED progExit
       ELSE /\ progExit' = "osExit1"
            /\ UNCHANGED ffpc
    /\ UNCHANGED <<proc, toWrite, pipe, closed, reader, printed>>
    /\ UNCHANGED <<cfgVars, op, reduceVars, renderVars, mainVars>>

\* main goes on after ffmpeg() and ends; the goroutines end with it
MainEnds ==
    /\ progExit = "no" /\ ffpc = "returned"
    /\ progExit' = "done"
    /\ UNCHANGED <<ffpc, proc, toWrite, pipe, closed, reader, printed>>
    /\ UNCHANGED <<cfgVars, op, reduceVars, renderVars, mainVars>>

NextFfmpeg ==
    \/ CmdStart
    \/ ProcWrite
    \/ ProcExit
    \/ \E s \in Streams : ReadLine(s)
    \/ \E s \in Streams : ReadEOF(s)
    \/ \E s \in Streams : ReadClosed(s)
    \/ WaitReap
    \/ WaitClose
    \/ WaitReturn
    \/ MainEnds

\* the Go scheduler runs every goroutine that can run; the process runs
FairFfmpeg ==
    /\ WF_vars(CmdStart) /\ WF_vars(ProcWrite) /\ WF_vars(ProcExit)
    /\ \A s \in Streams : WF_vars(ReadLine(s) \/ ReadEOF(s) \/ ReadClosed(s))
    /\ WF_vars(WaitReap) /\ WF_vars(WaitClose) /\ WF_vars(WaitReturn)
    /\ WF_vars(MainEnds)

SpecFfmpeg == InitFfmpeg /\ [][NextFfmpeg]_vars /\ FairFfmpeg

(***************************************************************************)
(* Claims about the reductions, checked under SpecReduce.                  *)
(***************************************************************************)
Hue(c) == ToHSL_H(c)
DistinctColors(list) == Cardinality(Range(list))
NoDuplicates(s) == \A i, j \in 1..Len(s) : i # j => s[i] # s[j]

\* C1: getMode with genMode = N > 0 on a non-empty list returns exactly
\* min(N, number of distinct colours) colours, none of them twice (no
\* padding entry when the frame has fewer than N distinct colours).
C1_ModeLengthIsMinWithoutPadding ==
    (op = "getMode" /\ pixels # <<>>) =>
        /\ Len(modeResult) = Min(genMode, DistinctColors(pixels))
        /\ NoDuplicates(modeResult)

\* C2: every colour getMode returns occurs in the pixel list, and no colour
\* left out occurs strictly more often than a colour of the result.
C2_ModeIsTopNOfTheInput ==
    (op = "getMode" /\ pixels # <<>>) =>
        /\ \A i \in 1..Len(modeResult) : modeResult[i] \in Range(pixels)
        /\ \A c \in Range(pixels) \ Range(modeResult) :
               \A d \in Range(modeResult) :
                   Occurrences(pixels, c) <= Occurrences(pixels, d)

\* C3: the sequence getMode returns is ordered by ascending hue: each
\* element's ToHSL().H is at most its successor's.
C3_ModeIsHueAscending ==
    op = "getMode" =>
        \A i \in 1..(Len(modeResult) - 1) :
            ~FracLess(Hue(modeResult[i + 1]), Hue(modeResult[i]))

\* C3 witness: a result in which a colour of strictly smaller hue comes
\* first although it occurs less often than its successor.
C3_Witness ==
    /\ op = "getMode"
    /\ \E i \in 1..(Len(modeResult) - 1) :
           /\ FracLess(Hue(modeResult[i]), Hue(modeResult[i + 1]))
           /\ 0 < Occurrences(pixels, modeResult[i])
           /\ Occurrences(pixels, modeResult[i])
                  < Occurrences(pixels, modeResult[i + 1])

HueBelow(list, c) ==
    Cardinality({i \in 1..Len(list) : FracLess(Hue(list[i]), Hue(c))})
HueNotAbove(list, c) ==
    Cardinality({i \in 1..Len(list) : ~FracLess(Hue(c), Hue(list[i]))})

\* C4: getMedian returns the element at index floor(count/2) of the list
\* sorted by ascending hue: a colour of the list with at most floor(count/2)
\* pixels of smaller hue and more than floor(count/2) pixels of hue not
\* above its own.
C4_MedianIsUpperMiddleByHue ==
    (op = "getMedian" /\ Len(pixels) >= 1) =>
        /\ medResult \in Range(pixels)
        /\ HueBelow(pixels, medResult) <= Len(pixels) \div 2
        /\ Len(pixels) \div 2 < HueNotAbove(pixels, medResult)

\* C4 witness: two pixels given in descending hue order; the median is the
\* one of larger hue (the upper middle of the sorted pair).
C4_Witness ==
    /\ op = "getMedian"
    /\ Len(pixels) = 2
    /\ FracLess(Hue(pixels[2]), Hue(pixels[1]))
    /\ medResult = pixels[1]

\* C5: the linear average is, per channel, floor(sum of the channel / count);
\* two white and two black pixels give (127,127,127).
C5_LinearAverageIsFloorOfMean ==
    (op = "getAverage" /\ ~avgSqr /\ Len(pixels) >= 1) =>
        /\ \A ch \in 1..3 :
               /\ avgResult[ch] * Len(pixels) <= SumChannel(pixels, ch)
               /\ SumChannel(pixels, ch) < (avgResult[ch] + 1) * Len(pixels)
        /\ pixels = TwoByTwoFrame => avgResult = <<127, 127, 127>>

\* C5 witness: the 2x2 white/black grid, whose mean 127.5 is not an integer.
C5_Witness ==
    /\ op = "getAverage" /\ ~avgSqr
    /\ pixels = TwoByTwoFrame
    /\ avgResult = <<127, 127, 127>>

\* C6 as claimed: the quadratic average is, per channel, sqrt(sum of squares
\* / count) rounded to the nearest integer, i.e. the result r has
\* (2r-1)^2 * count <= 4 * sumOfSquares < (2r+1)^2 * count (the lower bound
\* read as vacuous for r = 0, where r - 1/2 is negative).
C6_QuadraticAverageIsRounded ==
    (op = "getAverage" /\ avgSqr /\ Len(pixels) >= 1) =>
        \A ch \in 1..3 :
            LET r == avgResult[ch]
                s == SumSquares(pixels, ch)
                n == Len(pixels)
            IN  /\ r = 0 \/ (2 * r - 1) * (2 * r - 1) * n <= 4 * s
                /\ 4 * s < (2 * r + 1) * (2 * r + 1) * n

\* C6 as amended: the quadratic average is, per channel, sqrt(sum of
\* squares / count) truncated to an integer: the result r has
\* r^2 * count <= sumOfSquares < (r+1)^2 * count.
C6_QuadraticAverageIsTruncated ==
    (op = "getAverage" /\ avgSqr /\ Len(pixels) >= 1) =>
        \A ch \in 1..3 :
            LET r == avgResult[ch]
                s == SumSquares(pixels, ch)
                n == Len(pixels)
            IN  r * r * n <= s /\ s < (r + 1) * (r + 1) * n

\* C6 witness: a quadratic average with a channel whose root has a fraction
\* of at least one half, where truncating and rounding differ.
C6_Witness ==
    /\ op = "getAverage" /\ avgSqr /\ Len(pixels) >= 1
    /\ \E ch \in 1..3 :
           LET r == avgResult[ch]
           IN  (2 * r + 1) * (2 * r + 1) * Len(pixels)
                   <= 4 * SumSquares(pixels, ch)

\* C11: reducing a pixel grid with zero pixels fails with the EmptyFrame
\* error for every reduction (average, median, dominant set): the call
\* returns no colour, does not crash and yields no undefined value.
C11_EmptyGridFailsWithEmptyFrame ==
    (op \in {"getAverage", "getMedian", "getMode"} /\ pixels = <<>>) =>
        /\ reduceStatus = "EmptyFrame"
        /\ avgResult = NoColor /\ medResult = NoColor /\ modeResult = <<>>

(***************************************************************************)
(* Claims about the renderers, checked under SpecRender.                   *)
(***************************************************************************)
\* the rows of frame i (counted from 0) in a raster of line height lh
BandRows(i, lh) == (i * lh)..((i + 1) * lh - 1)

\* C7: the line image of K colours with width W > 0 and line height L > 0
\* is W wide and K*L high, and every pixel of band i is exactly sequence[i].
C7_LineImageBandsAreTheSequence ==
    (op = "genLineImage" /\ renderStatus = "written") =>
        /\ DOMAIN img =
               (0..(width - 1)) \X (0..(Len(lineFrames) * lineHeight - 1))
        /\ \A i \in 0..(Len(lineFrames) - 1) :
               \A x \in 0..(width - 1) : \A y \in BandRows(i, lineHeight) :
                   img[<<x, y>>] = RGBA(lineFrames[i + 1])

\* C7 witness: two frames of different colours, bands two lines high and
\* more than one pixel wide, written.
C7_Witness ==
    /\ op = "genLineImage" /\ renderStatus = "written"
    /\ Len(lineFrames) = 2 /\ lineFrames[1] # lineFrames[2]
    /\ lineHeight = 2 /\ width >= 2
    /\ img[<<width - 1, 3>>] = RGBA(lineFrames[2])

C12_ColumnsAreFloorWideAndRemainderIsBackground ==
    (op = "genLineColImage" /\ renderStatus = "written") =>
        /\ DOMAIN img =
               (0..(width - 1)) \X (0..(Len(colFrames) * lineHeight - 1))
        /\ \A i \in 0..(Len(colFrames) - 1) :
               LET row == colFrames[i + 1]
                   n == Len(row)
                   cw == width \div n
               IN  n >= 1 =>
                       /\ n * cw <= width
                       /\ \A x \in 0..(width - 1) :
                              \A y \in BandRows(i, lineHeight) :
                                  IF x < n * cw
                                  THEN img[<<x, y>>] = RGBA(row[(x \div cw) + 1])
                                  ELSE img[<<x, y>>] = Background

\* C12 witness: a written column image with a frame whose two different
\* colours do not divide the width 3 (one remainder pixel stays background)
\* and another written one with more colours than pixels of width.
C12_Witness ==
    /\ op = "genLineColImage" /\ renderStatus = "written"
    /\ Len(colFrames) = 2 /\ lineHeight = 2
    /\ Len(colFrames[2]) = 2 /\ colFrames[2][1] # colFrames[2][2]
    /\ \/ /\ width = 3
          /\ img[<<0, 3>>] = RGBA(colFrames[2][1])
          /\ img[<<1, 3>>] = RGBA(colFrames[2][2])
          /\ img[<<2, 3>>] = Background
       \/ /\ width = 1
          /\ img[<<0, 3>>] = Background

(***************************************************************************)
(* Claims about the pipeline, checked under Spec.                          *)
(***************************************************************************)
\* the frame files among the first n entries of the listing, in its order
FrameFiles(n) == SelectSeq(SubSeq(files, 1, n), LAMBDA e : e.Kind # "dir")

\* f can be the Frame processFrames builds for the listing entry e
IsProfileOf(f, e) ==
    /\ f.Path = SubPath(e.Name)
    /\ f.Average = (IF genAvg THEN getAverage(e.Pixels, avgSqr) ELSE ZeroRGB)
    /\ f.Median \in (IF genMed THEN getMedian(e.Pixels) ELSE {ZeroRGB})
    /\ f.Mode \in (IF genMode > 0 THEN getMode(e.Pixels, genMode) ELSE {<<>>})

\* every pixel of band i of a line image is colour c
BandIs(raster, i, c) ==
    \A x \in 0..(width - 1) : \A y \in BandRows(i, lineHeight) :
        raster[<<x, y>>] = RGBA(c)

\* column j of band i of the column image is row[j], for every j
BandColumnsAre(raster, i, row) ==
    \A j \in 0..(Len(row) - 1) :
        \A x \in BandRows(j, width \div Len(row)) :
            \A y \in BandRows(i, lineHeight) :
                raster[<<x, y>>] = RGBA(row[j + 1])

\* C9: processFrames returns exactly one profile per frame file of the
\* listing, in the listing's order (the i-th profile is the reduction of the
\* i-th frame), and band i of every barcode image written shows frame i.
\* In every state the i-th profile carries the i-th frame file's path and
\* every written image shows it in band i; that the profile is that file's
\* reduction is checked while the loop runs, when it returns and when the
\* run is done (nothing assigns frames in between).
C9_ProfilesAndBandsFollowTheListing ==
    pc # "flags" =>
        /\ Len(frames) = Len(FrameFiles(idx))
        /\ \A i \in 1..Len(frames) :
               /\ frames[i].Path = SubPath(FrameFiles(idx)[i].Name)
               /\ pc \in {"processFrames", "genAvg", "done"} =>
                      IsProfileOf(frames[i], FrameFiles(idx)[i])
               /\ written.avg # <<>> =>
                      BandIs(written.avg[1], i - 1, frames[i].Average)
               /\ written.med # <<>> =>
                      BandIs(written.med[1], i - 1, frames[i].Median)
               /\ written.mode # <<>> =>
                      BandColumnsAre(written.mode[1], i - 1, frames[i].Mode)
        /\ pc \in {"genAvg", "genMed", "genMode", "json", "done"} =>
               idx = Len(files)

\* C9 witness: a finished run over two different frames, with all three
\* images written.
C9_Witness ==
    /\ pc = "done"
    /\ Len(files) = 2 /\ Len(frames) = 2
    /\ files[1].Kind = "image" /\ files[2].Kind = "image"
    /\ files[1].Pixels # files[2].Pixels
    /\ frames[1].Path = SubPath(1) /\ frames[2].Path = SubPath(2)
    /\ written.avg # <<>> /\ written.med # <<>> /\ written.mode # <<>>

HasBadFrame == \E i \in 1..Len(files) : files[i].Kind = "bad"

\* C10: if a frame of the series cannot be opened or decoded, the run never
\* gets past processFrames and writes no barcode image and no JSON summary,
\* wherever the failing frame stands in the series.
C10_BadFrameAbortsWithoutOutput ==
    HasBadFrame =>
        /\ written = NothingWritten
        /\ pc \in {"flags", "processFrames", "exit1"}
        /\ ~(pc = "processFrames" /\ idx = Len(files))

\* C10 witness: the run has exited with status 1 at a bad frame that
\* follows a frame already reduced.
C10_Witness ==
    /\ pc = "exit1"
    /\ Len(files) = 2 /\ files[2].Kind = "bad"
    /\ idx = 1 /\ Len(frames) = 1
    /\ written = NothingWritten

(***************************************************************************)
(* Claims about ffmpeg(), checked under SpecFfmpeg.                        *)
(***************************************************************************)
\* what holds of the draining: a blocked write is always released, and an
\* exited process always leads to the end of the call or of the program
FfmpegOver == ffpc = "returned" \/ progExit # "no"
NeverBlockedForever == ProcBlocked ~> ~ProcBlocked
ExitedLeadsToOver == (proc \in Exited) ~> FfmpegOver

\* lines of the two streams printed in another order than they were written
PrintedOutOfOrder ==
    /\ Len(printed) = 2 /\ toWrite = <<>>
    /\ printed[1] = "stderr" /\ printed[2] = "stdout"
    /\ pipe["stdout"] = <<>> /\ pipe["stderr"] = <<>>

\* C13: while the process runs, each of its two streams is drained by its
\* own reader (both readers are reading from open pipes), and once the
\* process has exited ffmpeg() returns: taken for a process that exits
\* with status 0, nothing ends the program in place of that return.
C13_ReadersDrainAndFfmpegReturns ==
    /\ proc = "running" =>
           \A s \in Streams : reader[s] = "reading" /\ ~closed[s]
    /\ proc = "exitedOK" => progExit \notin {"osExit1", "logFatal"}

====
